---- MODULE Spec2Model ----
(***************************************************************************)
(* Model of raspberry_pi_math_quiz.py: the gpio_context scope, flash_led,  *)
(* get_integer_input, run_quiz and main, over an output medium whose two   *)
(* lines (PIN_GREEN_LED, PIN_RED_LED) are active-low.                      *)
(*                                                                         *)
(* A step of the model is one call that blocks or touches the medium.      *)
(* Ctrl+C (KeyboardInterrupt) may arrive at every step from the first GPIO *)
(* call of gpio_context to the last statement of the loop; any GPIO call   *)
(* that configures or writes a line may raise; the input stream may be     *)
(* closed at every prompt and is closed once MaxInputs lines were read.    *)
(***************************************************************************)
EXTENDS Integers, Sequences, FiniteSets, TLC

\* ---------------------------------------------------------------- bounds
MaxVal == 1          \* operands and answers typed are in -MaxVal..MaxVal
MaxInputs == 8       \* lines the input stream holds at most
MaxDuration == 6     \* durations drawn for a stand-alone flash_led call

\* ------------------------------------------------------------- constants
PIN_GREEN_LED == 33
PIN_RED_LED == 35
LED_ON_DURATION == 5
HIGH == 1
LOW == 0

Pins == {PIN_GREEN_LED, PIN_RED_LED}
None == "None"
\* A Python name is unbound, or bound to one value.
Unbound == <<>>
Bound(v) == <<v>>

\* --------------------------------------------------- text of input lines
\* A line of input is a sequence of one-character strings.
Digits == <<"0", "1", "2", "3", "4", "5", "6", "7", "8", "9">>
UpperCase == <<"A","B","C","D","E","F","G","H","I","J","K","L","M",
               "N","O","P","Q","R","S","T","U","V","W","X","Y","Z">>
LowerCase == <<"a","b","c","d","e","f","g","h","i","j","k","l","m",
               "n","o","p","q","r","s","t","u","v","w","x","y","z">>
Whitespace == {" "}

IsDigit(c) == \E i \in 1..10 : Digits[i] = c
DigitVal(c) == (CHOOSE i \in 1..10 : Digits[i] = c) - 1

RECURSIVE LStrip(_)
LStrip(t) == IF t # <<>> /\ Head(t) \in Whitespace THEN LStrip(Tail(t)) ELSE t

RECURSIVE RStrip(_)
RStrip(t) ==
  IF t # <<>> /\ t[Len(t)] \in Whitespace
  THEN RStrip(SubSeq(t, 1, Len(t) - 1)) ELSE t

\* str.strip()
Strip(t) == RStrip(LStrip(t))

LowerChar(c) ==
  IF \E i \in 1..26 : UpperCase[i] = c
  THEN LowerCase[CHOOSE i \in 1..26 : UpperCase[i] = c]
  ELSE c

\* str.lower()
Lower(t) == [i \in 1..Len(t) |-> LowerChar(t[i])]

RECURSIVE DigitsValue(_)
DigitsValue(ds) ==
  IF ds = <<>> THEN 0
  ELSE 10 * DigitsValue(SubSeq(ds, 1, Len(ds) - 1)) + DigitVal(ds[Len(ds)])

\* int(text): surrounding whitespace is dropped, one optional sign, then one
\* or more decimal digits; anything else is a ValueError (ok = FALSE).
ParseInt(t) ==
  LET s == Strip(t)
      signed == s # <<>> /\ s[1] \in {"+", "-"}
      body == IF signed THEN Tail(s) ELSE s
      neg == signed /\ s[1] = "-"
  IN IF body # <<>> /\ \A i \in 1..Len(body) : IsDigit(body[i])
     THEN [ok |-> TRUE,
           val |-> IF neg THEN 0 - DigitsValue(body) ELSE DigitsValue(body)]
     ELSE [ok |-> FALSE, val |-> 0]

\* The lines a user types in the model: the decimal text of every value of
\* -MaxVal..MaxVal, some with a sign or blanks around them, text that is no
\* integer, and answers to the continue prompt.
RECURSIVE NatText(_)
NatText(n) ==
  IF n < 10 THEN <<Digits[n + 1]>>
  ELSE NatText(n \div 10) \o <<Digits[(n % 10) + 1]>>

IntText(v) == IF v < 0 THEN <<"-">> \o NatText(0 - v) ELSE NatText(v)

IntTexts == {IntText(v) : v \in (0 - MaxVal)..MaxVal}
          \cup {<<" ">> \o IntText(MaxVal) \o <<" ">>, <<"+">> \o IntText(MaxVal)}
BadTexts == {<<"a", "b", "c">>, <<>>, <<"3", ".", "5">>}
WordTexts == {<<"y">>, <<" ", "Y", " ">>, <<"y", "e", "s">>, <<"n">>}
Texts == IntTexts \cup BadTexts \cup WordTexts


\* ------------------------------------------------------------------ state
VARIABLES
  pc,            \* the statement the program is at
  mode,          \* numbering mode of the medium: "UNSET" or "BOARD"
  lines,         \* state of each indicator line
  writes,        \* every GPIO.output(pin, level) performed, in order
  num1, num2, user_answer,     \* locals of run_quiz
  pin, duration, sleepLeft,    \* frame of flash_led
  roundMark,     \* Len(writes) when the current round began
  verdicts,      \* user_answer == correct_answer of every round so far
  consumed,      \* lines read from the input stream
  prompts,       \* calls of input() made
  lastText,      \* the last line read
  reason,        \* how the with-body (or initialization) was left
  propagated,    \* the exception that leaves run_quiz, None if it returns
  exitStatus,    \* exit status of the process
  cleanupCalls,  \* calls of GPIO.cleanup()
  initDone,      \* gpio_context reached its yield
  interruptedAt, \* statement at which Ctrl+C arrived
  closedAt,      \* prompt at which the input stream was found closed
  reported,      \* "Input stream closed." was printed
  releaseFailed  \* GPIO.cleanup() raised

medium == <<mode, lines, writes>>
locals == <<num1, num2, user_answer, roundMark, verdicts>>
flash == <<pin, duration, sleepLeft>>
io == <<consumed, prompts, lastText>>
outcome == <<reason, propagated, exitStatus>>
hist == <<cleanupCalls, initDone, interruptedAt, closedAt, reported, releaseFailed>>
vars == <<pc, medium, locals, flash, io, outcome, hist>>

LineStates == {"UNINITIALIZED", "CONFIGURED", "ASSERTED", "DEASSERTED"}
InitPcs == {"setwarnings", "setmode", "setup_green", "setup_red",
            "init_green", "init_red"}
FaultyInitPcs == InitPcs \ {"setwarnings"}
IntPrompts == {"num1", "num2", "answer"}
PromptPcs == IntPrompts \cup {"again"}
FlashPcs == {"flash_low", "sleep", "flash_high"}
BodyPcs == PromptPcs \cup FlashPcs
Exceptions == {"KeyboardInterrupt", "SystemExit", "EOFError", "RuntimeError"}

GpioOutput_AllLines(l, p, level) ==
  [q \in DOMAIN l |-> IF level = LOW THEN "ASSERTED" ELSE "DEASSERTED"]

\* GPIO.output(pin, level) on an active-low line: LOW asserts, HIGH deasserts.
GpioOutput(l, p, level) ==
  [l EXCEPT ![p] = IF level = LOW THEN "ASSERTED" ELSE "DEASSERTED"]

\* GPIO.setup(pin, GPIO.OUT): the line is an output, no level written yet.
GpioSetup(l, p) == [l EXCEPT ![p] = "CONFIGURED"]

LinesAfterCleanup_Kept(l) == l

\* GPIO.cleanup(): every line goes back to the unconfigured state.
LinesAfterCleanup(l) == [p \in DOMAIN l |-> "UNINITIALIZED"]

PinFor_Swapped(a, b, c) == IF c = a + b THEN PIN_RED_LED ELSE PIN_GREEN_LED

\* run_quiz's branch on user_answer == correct_answer.
PinFor(a, b, c) == IF c = a + b THEN PIN_GREEN_LED ELSE PIN_RED_LED

\* The exception still in flight when the with-block is left.
PendingExc(r) == IF r \in {"break", "cancelled"} THEN None ELSE r

ExitStatuses_AlwaysOne(e) == {1}

\* Exit status of the interpreter: main's return value, SystemExit's code,
\* 1 for an uncaught exception; an uncaught KeyboardInterrupt ends the
\* process with status 1 or by SIGINT (130), depending on the interpreter.
ExitStatuses(e) ==
  CASE e = None -> {0}
    [] e = "SystemExit" -> {1}
    [] e = "KeyboardInterrupt" -> {1, 130}
    [] OTHER -> {1}

Init ==
  /\ pc = "setwarnings"
  /\ mode = "UNSET"
  /\ lines = [p \in Pins |-> "UNINITIALIZED"]
  /\ writes = <<>>
  /\ num1 = Unbound /\ num2 = Unbound /\ user_answer = Unbound
  /\ pin = Unbound /\ duration = Unbound /\ sleepLeft = 0
  /\ roundMark = 0
  /\ verdicts = <<>>
  /\ consumed = 0 /\ prompts = 0 /\ lastText = Unbound
  /\ reason = None /\ propagated = None /\ exitStatus = Unbound
  /\ cleanupCalls = 0
  /\ initDone = FALSE
  /\ interruptedAt = None /\ closedAt = None
  /\ reported = FALSE /\ releaseFailed = FALSE

\* ----------------------------------------------------------- gpio_context
RaiseInInit_NoFinally(e) ==
  /\ pc' = "exit"
  /\ reason' = e
  /\ propagated' = e
  /\ UNCHANGED exitStatus

RaiseInInit_Swallowed(e) ==
  /\ pc' = "num1"
  /\ reason' = e
  /\ UNCHANGED <<propagated, exitStatus>>

\* An exception raised before the yield is inside the try of gpio_context:
\* control goes to the finally clause with the exception pending.
RaiseInInit(e) ==
  /\ pc' = "cleanup"
  /\ reason' = e
  /\ UNCHANGED <<propagated, exitStatus>>

SetWarnings ==
  /\ pc = "setwarnings"
  /\ pc' = "setmode"
  /\ UNCHANGED <<medium, locals, flash, io, outcome, hist>>

SetMode ==
  /\ pc = "setmode"
  /\ mode' = "BOARD"
  /\ pc' = "setup_green"
  /\ UNCHANGED <<lines, writes, locals, flash, io, outcome, hist>>

SetupGreen ==
  /\ pc = "setup_green"
  /\ lines' = GpioSetup(lines, PIN_GREEN_LED)
  /\ pc' = "setup_red"
  /\ UNCHANGED <<mode, writes, locals, flash, io, outcome, hist>>

SetupRed_WrongPin ==
  /\ pc = "setup_red"
  /\ lines' = GpioSetup(lines, PIN_GREEN_LED)
  /\ pc' = "init_green"
  /\ UNCHANGED <<mode, writes, locals, flash, io, outcome, hist>>

SetupRed ==
  /\ pc = "setup_red"
  /\ lines' = GpioSetup(lines, PIN_RED_LED)
  /\ pc' = "init_green"
  /\ UNCHANGED <<mode, writes, locals, flash, io, outcome, hist>>

InitGreen_NoWrite ==
  /\ pc = "init_green"
  /\ pc' = "init_red"
  /\ UNCHANGED <<medium, locals, flash, io, outcome, hist>>

InitGreen ==
  /\ pc = "init_green"
  /\ lines' = GpioOutput(lines, PIN_GREEN_LED, HIGH)
  /\ writes' = Append(writes, <<PIN_GREEN_LED, HIGH>>)
  /\ pc' = "init_red"
  /\ UNCHANGED <<mode, locals, flash, io, outcome, hist>>

\* The last write of the initialization, then the yield: the with-body starts.
InitRed ==
  /\ pc = "init_red"
  /\ lines' = GpioOutput(lines, PIN_RED_LED, HIGH)
  /\ writes' = Append(writes, <<PIN_RED_LED, HIGH>>)
  /\ initDone' = TRUE
  /\ roundMark' = Len(writes')
  /\ pc' = "num1"
  /\ UNCHANGED <<mode, num1, num2, user_answer, verdicts, flash, io, outcome,
                 cleanupCalls, interruptedAt, closedAt, reported, releaseFailed>>

\* setmode, setup or output raises: the medium cannot be configured.
InitFault ==
  /\ pc \in FaultyInitPcs
  /\ RaiseInInit("RuntimeError")
  /\ UNCHANGED <<medium, locals, flash, io, hist>>

\* Ctrl+C while gpio_context is still initializing: no handler is active yet.
InitInterrupt ==
  /\ pc \in InitPcs
  /\ interruptedAt' = pc
  /\ RaiseInInit("KeyboardInterrupt")
  /\ UNCHANGED <<medium, locals, flash, io,
                 cleanupCalls, initDone, closedAt, reported, releaseFailed>>

\* -------------------------------------------------------------- run_quiz
\* An exception other than KeyboardInterrupt raised in the with-body passes
\* the except clause of run_quiz and reaches the finally of gpio_context.
RaiseInBody(e) ==
  /\ pc' = "cleanup"
  /\ reason' = e
  /\ UNCHANGED <<propagated, exitStatus>>

\* except KeyboardInterrupt: the goodbye line is printed and the with-block
\* is left normally.
CatchKeyboardInterrupt ==
  /\ pc' = "cleanup"
  /\ reason' = "cancelled"
  /\ UNCHANGED <<propagated, exitStatus>>

\* What run_quiz does with the integer get_integer_input returned at prompt p.
Assign(p, v) ==
  /\ pc' = CASE p = "num1" -> "num2" [] p = "num2" -> "answer"
             [] OTHER -> "flash_low"
  /\ num1' = IF p = "num1" THEN Bound(v) ELSE num1
  /\ num2' = IF p = "num2" THEN Bound(v) ELSE num2
  /\ user_answer' = IF p = "answer" THEN Bound(v) ELSE user_answer
  /\ verdicts' = IF p = "answer" THEN Append(verdicts, v = num1[1] + num2[1])
                 ELSE verdicts
  /\ IF p = "answer"
     THEN /\ pin' = Bound(PinFor(num1[1], num2[1], v))
          /\ duration' = Bound(LED_ON_DURATION)
          /\ UNCHANGED sleepLeft
     ELSE UNCHANGED flash

GetIntegerInput_ZeroOnError ==
  /\ pc \in IntPrompts
  /\ consumed < MaxInputs
  /\ \E t \in Texts :
       /\ lastText' = Bound(t)
       /\ Assign(pc, ParseInt(t).val)
  /\ consumed' = consumed + 1
  /\ prompts' = prompts + 1
  /\ UNCHANGED <<medium, roundMark, outcome, hist>>

GetIntegerInput_NoConsume ==
  /\ pc \in IntPrompts
  /\ consumed < MaxInputs
  /\ \E t \in Texts :
       /\ lastText' = Bound(t)
       /\ IF ParseInt(t).ok
          THEN /\ Assign(pc, ParseInt(t).val)
               /\ consumed' = consumed + 1
               /\ prompts' = prompts + 1
          ELSE UNCHANGED <<pc, num1, num2, user_answer, verdicts, flash,
                           consumed, prompts>>
  /\ UNCHANGED <<medium, roundMark, outcome, hist>>

\* get_integer_input, a line was read: int(line) is returned, or the error
\* line is printed and the same prompt is issued again.
GetIntegerInput ==
  /\ pc \in IntPrompts
  /\ consumed < MaxInputs
  /\ \E t \in Texts :
       /\ lastText' = Bound(t)
       /\ IF ParseInt(t).ok
          THEN Assign(pc, ParseInt(t).val)
          ELSE UNCHANGED <<pc, num1, num2, user_answer, verdicts, flash>>
  /\ consumed' = consumed + 1
  /\ prompts' = prompts + 1
  /\ UNCHANGED <<medium, roundMark, outcome, hist>>

\* input() raises EOFError. get_integer_input prints "Input stream closed."
\* and calls sys.exit(1); the continue prompt has no handler for it.
InputStreamClosed ==
  /\ pc \in PromptPcs
  /\ prompts' = prompts + 1
  /\ closedAt' = pc
  /\ IF pc \in IntPrompts
     THEN reported' = TRUE /\ RaiseInBody("SystemExit")
     ELSE UNCHANGED reported /\ RaiseInBody("EOFError")
  /\ UNCHANGED <<medium, locals, flash, consumed, lastText,
                 cleanupCalls, initDone, interruptedAt, releaseFailed>>

\* Ctrl+C inside the try of run_quiz: while waiting at a prompt, or in
\* flash_led before, during or after the sleep.
Interrupt ==
  /\ pc \in BodyPcs
  /\ interruptedAt' = pc
  /\ prompts' = IF pc \in PromptPcs THEN prompts + 1 ELSE prompts
  /\ CatchKeyboardInterrupt
  /\ UNCHANGED <<medium, locals, flash, consumed, lastText,
                 cleanupCalls, initDone, closedAt, reported, releaseFailed>>

TryAnother_StartsWithY ==
  /\ pc = "again"
  /\ consumed < MaxInputs
  /\ \E t \in Texts :
       /\ lastText' = Bound(t)
       /\ IF Lower(Strip(t)) # <<>> /\ Head(Lower(Strip(t))) = "y"
          THEN /\ pc' = "num1"
               /\ roundMark' = Len(writes)
               /\ UNCHANGED outcome
          ELSE /\ pc' = "cleanup"
               /\ reason' = "break"
               /\ UNCHANGED <<roundMark, propagated, exitStatus>>
  /\ consumed' = consumed + 1
  /\ prompts' = prompts + 1
  /\ UNCHANGED <<medium, num1, num2, user_answer, verdicts, flash, hist>>

\* again = input("Try another? (y/n): ").strip().lower(); 'y' starts the
\* next round, anything else breaks out of the loop.
TryAnother ==
  /\ pc = "again"
  /\ consumed < MaxInputs
  /\ \E t \in Texts :
       /\ lastText' = Bound(t)
       /\ IF Lower(Strip(t)) = <<"y">>
          THEN /\ pc' = "num1"
               /\ roundMark' = Len(writes)
               /\ UNCHANGED outcome
          ELSE /\ pc' = "cleanup"
               /\ reason' = "break"
               /\ UNCHANGED <<roundMark, propagated, exitStatus>>
  /\ consumed' = consumed + 1
  /\ prompts' = prompts + 1
  /\ UNCHANGED <<medium, num1, num2, user_answer, verdicts, flash, hist>>

\* ------------------------------------------------------------- flash_led
FlashLedAssert ==
  /\ pc = "flash_low"
  /\ lines' = GpioOutput(lines, pin[1], LOW)
  /\ writes' = Append(writes, <<pin[1], LOW>>)
  /\ sleepLeft' = duration[1]
  /\ pc' = "sleep"
  /\ UNCHANGED <<mode, locals, pin, duration, io, outcome, hist>>

\* time.sleep(duration): blocks while time is left, returns at once if none.
FlashLedSleep ==
  /\ pc = "sleep"
  /\ IF sleepLeft > 0
     THEN sleepLeft' = sleepLeft - 1 /\ UNCHANGED pc
     ELSE pc' = "flash_high" /\ UNCHANGED sleepLeft
  /\ UNCHANGED <<medium, locals, pin, duration, io, outcome, hist>>

FlashLedDeassert_NoWrite ==
  /\ pc = "flash_high"
  /\ pc' = "again"
  /\ UNCHANGED <<medium, locals, flash, io, outcome, hist>>

FlashLedDeassert ==
  /\ pc = "flash_high"
  /\ lines' = GpioOutput(lines, pin[1], HIGH)
  /\ writes' = Append(writes, <<pin[1], HIGH>>)
  /\ pc' = "again"
  /\ UNCHANGED <<mode, locals, flash, io, outcome, hist>>

\* GPIO.output raises inside flash_led; the line keeps the state it had.
FlashFault ==
  /\ pc \in {"flash_low", "flash_high"}
  /\ RaiseInBody("RuntimeError")
  /\ UNCHANGED <<medium, locals, flash, io, hist>>

\* -------------------------------------------- finally of gpio_context, main
GpioCleanup_KeepsMode ==
  /\ pc = "cleanup"
  /\ cleanupCalls' = cleanupCalls + 1
  /\ lines' = LinesAfterCleanup(lines)
  /\ propagated' = PendingExc(reason)
  /\ pc' = "exit"
  /\ UNCHANGED <<mode, writes, locals, flash, io, reason, exitStatus,
                 initDone, interruptedAt, closedAt, reported, releaseFailed>>

\* GPIO.cleanup() returns; a pending exception goes on propagating.
GpioCleanup ==
  /\ pc = "cleanup"
  /\ cleanupCalls' = cleanupCalls + 1
  /\ lines' = LinesAfterCleanup(lines)
  /\ mode' = "UNSET"
  /\ propagated' = PendingExc(reason)
  /\ pc' = "exit"
  /\ UNCHANGED <<writes, locals, flash, io, reason, exitStatus,
                 initDone, interruptedAt, closedAt, reported, releaseFailed>>

\* GPIO.cleanup() raises: its exception leaves the finally clause in place
\* of whatever was pending. The medium is left as it was.
GpioCleanupFails ==
  /\ pc = "cleanup"
  /\ cleanupCalls' = cleanupCalls + 1
  /\ releaseFailed' = TRUE
  /\ propagated' = "RuntimeError"
  /\ pc' = "exit"
  /\ UNCHANGED <<medium, locals, flash, io, reason, exitStatus,
                 initDone, interruptedAt, closedAt, reported>>

\* main returns 0 after run_quiz, or the exception ends the interpreter.
MainExit ==
  /\ pc = "exit"
  /\ exitStatus' \in {Bound(x) : x \in ExitStatuses(propagated)}
  /\ pc' = "done"
  /\ UNCHANGED <<medium, locals, flash, io, reason, propagated, hist>>

Next ==
  \/ SetWarnings \/ SetMode \/ SetupGreen \/ SetupRed \/ InitGreen \/ InitRed
  \/ InitFault \/ InitInterrupt
  \/ GetIntegerInput \/ InputStreamClosed \/ Interrupt \/ TryAnother
  \/ FlashLedAssert \/ FlashLedSleep \/ FlashLedDeassert \/ FlashFault
  \/ GpioCleanup \/ GpioCleanupFails \/ MainExit

Spec == Init /\ [][Next]_vars

\* The program is one sequential thread: every call returns (input() with a
\* line or with EOFError, time.sleep after its duration), so a step that is
\* possible is eventually taken.
LiveSpec == Init /\ [][Next]_vars /\ WF_vars(Next)

\* A stand-alone call flash_led(pin, duration) on an initialized medium, for
\* either pin and every duration of 0..MaxDuration.
InitPulse ==
  /\ pc = "flash_low"
  /\ mode = "BOARD"
  /\ lines = [p \in Pins |-> "DEASSERTED"]
  /\ writes = <<<<PIN_GREEN_LED, HIGH>>, <<PIN_RED_LED, HIGH>>>>
  /\ num1 = Unbound /\ num2 = Unbound /\ user_answer = Unbound
  /\ pin \in {Bound(p) : p \in Pins}
  /\ duration \in {Bound(d) : d \in 0..MaxDuration}
  /\ sleepLeft = 0
  /\ roundMark = 2
  /\ verdicts = <<>>
  /\ consumed = 0 /\ prompts = 0 /\ lastText = Unbound
  /\ reason = None /\ propagated = None /\ exitStatus = Unbound
  /\ cleanupCalls = 0
  /\ initDone = TRUE
  /\ interruptedAt = None /\ closedAt = None
  /\ reported = FALSE /\ releaseFailed = FALSE

PulseInterrupt == pc \in FlashPcs /\ Interrupt

NextPulse ==
  \/ FlashLedAssert \/ FlashLedSleep \/ FlashLedDeassert \/ FlashFault
  \/ PulseInterrupt

SpecPulse == InitPulse /\ [][NextPulse]_vars

TypeOK ==
  /\ pc \in InitPcs \cup BodyPcs \cup {"cleanup", "exit", "done"}
  /\ mode \in {"UNSET", "BOARD"}
  /\ lines \in [Pins -> LineStates]
  /\ writes \in Seq(Pins \X {LOW, HIGH})
  /\ consumed \in 0..MaxInputs /\ prompts \in 0..(MaxInputs + 1)
  /\ reason \in {None, "break", "cancelled"} \cup Exceptions
  /\ propagated \in {None} \cup Exceptions
  /\ exitStatus \in {Unbound, <<0>>, <<1>>, <<130>>}
  /\ pc = "done" <=> exitStatus # Unbound
  /\ cleanupCalls \in 0..1

\* ------------------------------------------------------------ properties
Released == pc \in {"exit", "done"}
IsLow(w) == w[2] = LOW
\* The writes of the current round, and the pulses begun in it.
RoundWrites == SubSeq(writes, roundMark + 1, Len(writes))
RoundPulses == SelectSeq(RoundWrites, IsLow)

\* C1: whenever the with-body was entered and release (GPIO.cleanup) is
\* about to run, both indicator lines are DEASSERTED.
C1_ReleaseEnteredDeasserted ==
  (pc = "cleanup" /\ initDone) => \A p \in Pins : lines[p] = "DEASSERTED"

\* C2: GPIO.cleanup is called exactly once per run of gpio_context: not
\* before the scope is left, and exactly once when it has been left, however
\* it was left.
C2_ReleaseExactlyOnce ==
  /\ cleanupCalls <= 1
  /\ Released => cleanupCalls = 1
  /\ ~Released => cleanupCalls = 0

C2_Witness ==
  /\ pc = "done" /\ cleanupCalls = 1
  /\ initDone /\ reason = "RuntimeError" /\ ~releaseFailed

\* C3: what leaves run_quiz, and the exit status, are those of the reason
\* the scope was left for, whether or not GPIO.cleanup raised.
C3_ReleaseFailureNotPropagated ==
  /\ Released => propagated = PendingExc(reason)
  /\ pc = "done" => exitStatus[1] \in ExitStatuses(PendingExc(reason))

\* C4: a run in which Ctrl+C arrived between the start of the initialization
\* and the end of the loop ends with release run and exit status 0.
C4_InterruptExitsZero ==
  (pc = "done" /\ interruptedAt # None /\ ~releaseFailed)
     => (cleanupCalls = 1 /\ exitStatus = <<0>>)

\* C5: a run in which the input stream was found closed at a prompt ends
\* with the condition reported, release run and exit status 1.
C5_StreamClosedReported ==
  (pc = "done" /\ closedAt # None)
     => (reported /\ cleanupCalls = 1 /\ exitStatus = <<1>>)

\* C6: in a round with operands num1, num2 and claimed sum user_answer the
\* line pulsed is the green one iff user_answer = num1 + num2 and the red one
\* otherwise; no pulse begins before the answer is read, at most one begins
\* in a round, and a completed round has exactly one.
C6_PulseMatchesAnswer ==
  /\ initDone => Len(RoundPulses) <= 1
  /\ pc \in IntPrompts \cup {"flash_low"} => RoundPulses = <<>>
  /\ pc \in FlashPcs \cup {"again"} =>
       /\ pin = <<PIN_GREEN_LED>> <=> user_answer[1] = num1[1] + num2[1]
       /\ pin = <<PIN_RED_LED>> <=> user_answer[1] # num1[1] + num2[1]
       /\ \A i \in 1..Len(RoundPulses) : RoundPulses[i][1] = pin[1]
  /\ pc = "again" => Len(RoundPulses) = 1

C6_Witness ==
  /\ pc = "again"
  /\ user_answer[1] = num1[1] + num2[1]
  /\ RoundPulses = <<<<PIN_GREEN_LED, LOW>>>>
  /\ roundMark > 2

C8_InitFailureIsFatal ==
  (reason = "RuntimeError" /\ ~initDone) =>
     /\ pc \in {"cleanup", "exit", "done"}
     /\ prompts = 0
     /\ SelectSeq(writes, IsLow) = <<>>
     /\ Released => propagated # None
     /\ pc = "done" => exitStatus # <<0>>

C8_Witness ==
  /\ pc = "done" /\ reason = "RuntimeError" /\ ~initDone
  /\ lines[PIN_GREEN_LED] = "UNINITIALIZED" /\ mode = "UNSET"
  /\ cleanupCalls = 1 /\ exitStatus = <<1>>

\* C9: a line that is not an integer, read at an integer prompt, leaves the
\* program at the same prompt with the operands read so far, writes to no
\* line and does not end the loop.
C9_InvalidInputReprompts ==
  [][(pc \in IntPrompts /\ consumed' = consumed + 1
        /\ lastText'[1] \in BadTexts \cup WordTexts)
      => (/\ pc' = pc
          /\ <<num1, num2, user_answer, verdicts>>'
                = <<num1, num2, user_answer, verdicts>>
          /\ medium' = medium
          /\ outcome' = outcome)]_vars

C9_Witness ==
  /\ pc = "answer" /\ lastText[1] \in BadTexts
  /\ consumed >= 3 /\ writes = <<<<PIN_GREEN_LED, HIGH>>, <<PIN_RED_LED, HIGH>>>>

\* C10: a flash_led(pin, duration) that is not interrupted writes LOW to pin,
\* then HIGH to pin, and nothing else, for every duration from 0 up; the line
\* is ASSERTED in between and DEASSERTED when flash_led returns.
C10_PulseWritesLowThenHigh ==
  /\ pc \in {"sleep", "flash_high"} =>
       RoundWrites = <<<<pin[1], LOW>>>> /\ lines[pin[1]] = "ASSERTED"
  /\ pc = "again" =>
       /\ RoundWrites = <<<<pin[1], LOW>>, <<pin[1], HIGH>>>>
       /\ lines[pin[1]] = "DEASSERTED"

C10_Witness ==
  /\ pc = "again" /\ duration = <<0>>
  /\ RoundWrites = <<<<PIN_RED_LED, LOW>>, <<PIN_RED_LED, HIGH>>>>

\* C11: the exit status is non-zero exactly when the run ended because the
\* input stream was closed or because the initialization failed.
C11_NonZeroIffClosedOrInitFailed ==
  pc = "done" =>
    (exitStatus # <<0>> <=>
       (closedAt # None \/ (reason = "RuntimeError" /\ ~initDone)))

AllPulses == SelectSeq(writes, IsLow)
RoundPin(i) == IF verdicts[i] THEN PIN_GREEN_LED ELSE PIN_RED_LED

\* C12: a run of n >= 1 complete rounds ended by a non-affirmative answer
\* has made exactly n pulses, each completed, the i-th on the green line if
\* the i-th claimed sum was right and on the red line otherwise; release
\* then runs once and the exit status is 0.
C12_OnePulsePerRoundThenExitZero ==
  (pc \in {"cleanup", "exit", "done"} /\ reason = "break") =>
     /\ Len(verdicts) >= 1
     /\ Len(writes) = 2 + 2 * Len(verdicts)
     /\ \A i \in 1..Len(verdicts) :
          /\ writes[2 + 2 * i - 1] = <<RoundPin(i), LOW>>
          /\ writes[2 + 2 * i] = <<RoundPin(i), HIGH>>
     /\ Released => cleanupCalls = 1
     /\ (pc = "done" /\ ~releaseFailed) => exitStatus = <<0>>

C12_Witness ==
  /\ pc = "done" /\ reason = "break" /\ ~releaseFailed
  /\ verdicts = <<FALSE, TRUE>>
  /\ AllPulses = <<<<PIN_RED_LED, LOW>>, <<PIN_GREEN_LED, LOW>>>>
  /\ exitStatus = <<0>>

\* The lines of Texts that are 'y' once stripped and lowercased.
AffirmativeTexts == {<<"y">>, <<" ", "Y", " ">>}

\* C13: a line read at the continue prompt starts another round only if it
\* is 'y' after stripping and lowercasing; every other line (the empty one
\* and 'yes' among them) breaks out of the loop, and after the break there is
\* no further prompt and no further write to a line.
C13_OnlyYContinues ==
  /\ [][(pc = "again" /\ consumed' = consumed + 1) =>
          IF lastText'[1] \in AffirmativeTexts
          THEN pc' = "num1" /\ reason' = reason
          ELSE pc' = "cleanup" /\ reason' = "break"]_vars
  /\ [][reason = "break" =>
          (pc' \in {"exit", "done"} /\ prompts' = prompts /\ writes' = writes)]_vars

C13_Witness ==
  /\ pc = "done" /\ reason = "break"
  /\ lastText = <<<<"y", "e", "s">>>>
  /\ Len(verdicts) = 2

C15_DeassertedAtPrompts ==
  /\ pc \in PromptPcs =>
       mode = "BOARD" /\ \A p \in Pins : lines[p] = "DEASSERTED"
  /\ \A p \in Pins :
       lines[p] = "ASSERTED" =>
         Len(writes) > 2 /\ writes[Len(writes)] = <<p, LOW>>

C15_Witness ==
  /\ pc = "again" /\ Len(writes) = 4
  /\ writes[3][2] = LOW
  /\ \A p \in Pins : lines[p] = "DEASSERTED"

\* C16: the two lines are never ASSERTED together; a step of flash_led leaves
\* the line it was not called for as it is; flash_led is entered with no
\* line ASSERTED.
C16_AtMostOneAsserted ==
  /\ [](~(\A p \in Pins : lines[p] = "ASSERTED"))
  /\ [](pc = "flash_low" => \A p \in Pins : lines[p] # "ASSERTED")
  /\ [][(pc \in FlashPcs) =>
          (\A p \in Pins \ {pin[1]} : lines'[p] = lines[p])]_vars

C16_Witness ==
  /\ pc = "sleep" /\ roundMark = 4
  /\ writes[3] = <<PIN_GREEN_LED, LOW>>
  /\ lines[PIN_RED_LED] = "ASSERTED"
  /\ lines[PIN_GREEN_LED] = "DEASSERTED"

\* C17: a write to a line happens only with the numbering mode set, the pin
\* set up and GPIO.cleanup not yet called; once cleanup was called there is
\* no further write and no further prompt.
C17_WritesOnlyWhileConfigured ==
  /\ [][(writes' # writes) =>
          /\ Len(writes') = Len(writes) + 1
          /\ mode = "BOARD"
          /\ cleanupCalls = 0
          /\ lines[writes'[Len(writes')][1]] # "UNINITIALIZED"]_vars
  /\ [][(cleanupCalls >= 1) => (writes' = writes /\ prompts' = prompts)]_vars

C17_Witness ==
  /\ pc = "done" /\ cleanupCalls = 1
  /\ Len(writes) = 4 /\ prompts = 4
  /\ mode = "UNSET"

\* C18: with an input stream of at most MaxInputs lines and every call
\* returning, the program terminates with GPIO.cleanup called; a step that
\* keeps the program in the loop after a prompt has consumed a line.
C18_TerminatesAfterRelease ==
  /\ <>(pc = "done" /\ cleanupCalls = 1)
  /\ [][(pc \in PromptPcs /\ pc' \in BodyPcs) => consumed' = consumed + 1]_vars

C18_Witness ==
  /\ pc = "done" /\ cleanupCalls = 1
  /\ consumed = MaxInputs /\ closedAt # None

====
